---- MODULE Spec2Model ----
(***************************************************************************)
(* Reddit User Persona Analyzer (src/main.py, src/config.py).              *)
(*                                                                         *)
(* The program run as a script: load_config, main, PersonaGenerator,       *)
(* RedditScraper, PersonaAnalyzer, and the module-level OpenRouter test    *)
(* that follows the call of main().                                        *)
(*                                                                         *)
(* Python strings whose characters matter (identifiers, bodies) are        *)
(* sequences of one-character strings.  The text built by                  *)
(* prepare_content_for_analysis is a sequence of lines, one line per       *)
(* f-string the function appends.                                          *)
(***************************************************************************)
EXTENDS Integers, Sequences, FiniteSets, TLC

VARIABLES
    pc,            \* position of the script
    env,           \* os.environ after load_dotenv
    reddit_config, \* load_config's first result
    ai_config,     \* load_config's second result
    user_input,    \* main: input(...).strip()
    username,      \* generate_persona: username
    posts,         \* generate_persona: posts
    comments,      \* generate_persona: comments
    content,       \* generate_persona: content
    persona,       \* generate_persona: persona
    response,      \* analyze_persona: response
    error,         \* the exception main's handler caught, or NoError
    stages,        \* the stages of generate_persona executed so far, in order
    requests,      \* the requests sent to the completion endpoint, in order
    platform_calls,\* the calls made to the platform API
    files          \* the report files written under output/

vars == <<pc, env, reddit_config, ai_config, user_input, username, posts,
          comments, content, persona, response, error, stages, requests,
          platform_calls, files>>

----------------------------------------------------------------------------
(* Python str operations on sequences of characters *)

Min(a, b) == IF a < b THEN a ELSE b

\* s[:n]
Prefix(s, n) == SubSeq(s, 1, Min(n, Len(s)))

\* s[n:]  (n counted from 0)
Suffix(s, n) == SubSeq(s, n + 1, Len(s))

\* s.startswith(p)
StartsWith(s, p) == Len(s) >= Len(p) /\ SubSeq(s, 1, Len(p)) = p

\* c in s
Contains(s, c) == \E i \in 1..Len(s) : s[i] = c

\* s.find(c) + 1 for a character c that occurs in s; s.index(x) + 1 for a list
IndexOf(s, c) == CHOOSE i \in 1..Len(s) : s[i] = c /\ \A j \in 1..(i - 1) : s[j] # c

\* s.replace(old, '')
RECURSIVE Remove(_, _)
Remove(s, old) ==
    IF s = <<>> THEN <<>>
    ELSE IF StartsWith(s, old) THEN Remove(Suffix(s, Len(old)), old)
    ELSE <<Head(s)>> \o Remove(Tail(s), old)

\* s.lstrip(c), s.rstrip(c), s.strip(c) for one character c
RECURSIVE LStrip(_, _)
LStrip(s, c) == IF s # <<>> /\ Head(s) = c THEN LStrip(Tail(s), c) ELSE s

RECURSIVE RStrip(_, _)
RStrip(s, c) ==
    IF s # <<>> /\ s[Len(s)] = c THEN RStrip(SubSeq(s, 1, Len(s) - 1), c) ELSE s

Strip(s, c) == RStrip(LStrip(s, c), c)

\* s.split(c)
RECURSIVE Split(_, _)
Split(s, c) ==
    IF ~Contains(s, c) THEN <<s>>
    ELSE LET i == IndexOf(s, c)
         IN  <<SubSeq(s, 1, i - 1)>> \o Split(Suffix(s, i), c)

\* str(n) for n >= 0
DigitChar(d) == <<"0", "1", "2", "3", "4", "5", "6", "7", "8", "9">>[d + 1]

RECURSIVE Digits(_)
Digits(n) == IF n < 10 THEN <<DigitChar(n)>> ELSE Digits(n \div 10) \o <<DigitChar(n % 10)>>

----------------------------------------------------------------------------
(* Exceptions *)

NoError == [type |-> "none", what |-> "", status |-> 0, text |-> "", keys |-> <<>>]

\* ValueError(f"Could not extract username from URL: {url_or_username}")
InvalidIdentifier ==
    [type |-> "ValueError", what |-> "Could not extract username from URL",
     status |-> 0, text |-> "", keys |-> <<>>]

Returned(v) == [raised |-> FALSE, value |-> v, exc |-> NoError]
Raised(e)   == [raised |-> TRUE, value |-> <<>>, exc |-> e]

----------------------------------------------------------------------------
(* RedditScraper.extract_username *)

SchemeChars ==
    {"a", "b", "c", "d", "e", "f", "g", "h", "i", "j", "k", "l", "m", "n", "o",
     "p", "q", "r", "s", "t", "u", "v", "w", "x", "y", "z",
     "0", "1", "2", "3", "4", "5", "6", "7", "8", "9", "+", "-", "."}

Letters == SchemeChars \ {"0", "1", "2", "3", "4", "5", "6", "7", "8", "9", "+", "-", "."}

\* the first index of s at or after which a character of cs stands, else Len(s) + 1
FirstOf(s, cs) ==
    IF \E i \in 1..Len(s) : s[i] \in cs
    THEN CHOOSE i \in 1..Len(s) : s[i] \in cs /\ \A j \in 1..(i - 1) : s[j] \notin cs
    ELSE Len(s) + 1

\* urllib.parse.urlparse(url).path: the scheme up to ':', the netloc after '//'
\* up to the first of '/', '?', '#', then the fragment and the query are cut
\* off, and the parameters after ';' in the last segment
UrlAfterScheme(url) ==
    LET i == FirstOf(url, {":"})
    IN  IF /\ i > 1 /\ i <= Len(url)
           /\ url[1] \in Letters
           /\ \A j \in 1..(i - 1) : url[j] \in SchemeChars
        THEN Suffix(url, i)
        ELSE url

UrlAfterNetloc(url) ==
    IF StartsWith(url, <<"/", "/">>)
    THEN LET rest == Suffix(url, 2)
         IN  Suffix(rest, FirstOf(rest, {"/", "?", "#"}) - 1)
    ELSE url

UrlPath(url) ==
    LET a == UrlAfterNetloc(UrlAfterScheme(url))
        b == SubSeq(a, 1, FirstOf(a, {"#"}) - 1)
        c == SubSeq(b, 1, FirstOf(b, {"?"}) - 1)
        segs == Split(c, "/")
        last == segs[Len(segs)]
        cut  == Len(last) - (FirstOf(last, {";"}) - 1)
    IN  SubSeq(c, 1, Len(c) - cut)

S_http == <<"h", "t", "t", "p">>
S_user == <<"u", "s", "e", "r">>
S_u    == <<"u", "/">>
S_su   == <<"/", "u", "/">>

\* the marker's own index used
SegmentAfterUser_Marker(path_parts) ==
    IF Contains(path_parts, S_user)
    THEN LET username_index == IndexOf(path_parts, S_user) - 1
         IN  IF username_index < Len(path_parts)
             THEN Returned(path_parts[username_index + 1])
             ELSE Raised(InvalidIdentifier)
    ELSE Raised(InvalidIdentifier)

\* lines 70-74: the segment after the first 'user' segment, or the ValueError
SegmentAfterUser(path_parts) ==
    IF Contains(path_parts, S_user)
    THEN LET username_index == (IndexOf(path_parts, S_user) - 1) + 1
         IN  IF username_index < Len(path_parts)
             THEN Returned(path_parts[username_index + 1])
             ELSE Raised(InvalidIdentifier)
    ELSE Raised(InvalidIdentifier)

extract_username(url_or_username) ==
    IF StartsWith(url_or_username, S_http)
    THEN SegmentAfterUser(Split(Strip(UrlPath(url_or_username), "/"), "/"))
    ELSE Returned(Remove(Remove(url_or_username, S_u), S_su))

----------------------------------------------------------------------------
(* RedditContent and PersonaAnalyzer.prepare_content_for_analysis *)

POST_CAP == 25
COMMENT_CAP == 25
POST_BODY_LIMIT == 500
COMMENT_BODY_LIMIT == 300

Line(label, num, text) == [label |-> label, num |-> num, text |-> text]

BlankLine == Line("", 0, <<>>)

Ellipsis == <<".", ".", ".">>

\* the marker put on every body that reaches the limit
ContentLine_AtLimit(body, limit) ==
    IF Len(body) >= limit
    THEN Line("Content", 0, Prefix(body, limit) \o Ellipsis)
    ELSE Line("Content", 0, body)

\* f"Content: {body[:limit]}...\n" if len(body) > limit else f"Content: {body}\n"
ContentLine(body, limit) ==
    IF Len(body) > limit
    THEN Line("Content", 0, Prefix(body, limit) \o Ellipsis)
    ELSE Line("Content", 0, body)

\* the slice left out
CapPosts_Uncapped(items) == items

\* posts[:25], comments[:25]
CapPosts(items) == Prefix(items, POST_CAP)

CapComments(items) == Prefix(items, COMMENT_CAP)

PostLines(i, post) ==
    << BlankLine,
       Line("POST", i, <<>>),
       Line("Subreddit", 0, post.subreddit),
       Line("Title", 0, post.title),
       ContentLine(post.body, POST_BODY_LIMIT),
       Line("Score", post.score, <<>>),
       Line("Link", 0, post.permalink) >>

CommentLines(i, comment) ==
    << BlankLine,
       Line("COMMENT", i, <<>>),
       Line("Subreddit", 0, comment.subreddit),
       ContentLine(comment.body, COMMENT_BODY_LIMIT),
       Line("Score", comment.score, <<>>),
       Line("Link", 0, comment.permalink) >>

\* for i, post in enumerate(items, i): ...
RECURSIVE EnumeratePosts(_, _)
EnumeratePosts(items, i) ==
    IF items = <<>> THEN <<>>
    ELSE PostLines(i, Head(items)) \o EnumeratePosts(Tail(items), i + 1)

RECURSIVE EnumerateComments(_, _)
EnumerateComments(items, i) ==
    IF items = <<>> THEN <<>>
    ELSE CommentLines(i, Head(items)) \o EnumerateComments(Tail(items), i + 1)

prepare_content_for_analysis(ps, cs) ==
    << Line("REDDIT USER CONTENT FOR ANALYSIS:", 0, <<>>), BlankLine,
       Line("=== POSTS ===", 0, <<>>) >>
    \o EnumeratePosts(CapPosts(ps), 1)
    \o << BlankLine, Line("=== COMMENTS ===", 0, <<>>) >>
    \o EnumerateComments(CapComments(cs), 1)

----------------------------------------------------------------------------
(* Configuration: load_config (src/main.py) and Config (src/config.py) *)

\* os.getenv of a variable that is not set
None == "<None>"

EnvVars ==
    {"REDDIT_CLIENT_ID", "REDDIT_CLIENT_SECRET", "REDDIT_USER_AGENT",
     "OPENROUTER_API_KEY", "AI_API_URL"}

\* not v
Falsy(v) == v = None \/ v = ""

\* os.getenv(k, default)
getenv(k, default) == IF env[k] = None THEN default ELSE env[k]

DEFAULT_USER_AGENT == "RedditPersonaAnalyzer/1.0"
DEFAULT_API_URL == "https://openrouter.ai/api/v1/chat/completions"
DEFAULT_MODEL == "openrouter/openai/gpt-3.5-turbo"

load_reddit_config ==
    [client_id     |-> getenv("REDDIT_CLIENT_ID", None),
     client_secret |-> getenv("REDDIT_CLIENT_SECRET", None),
     user_agent    |-> getenv("REDDIT_USER_AGENT", DEFAULT_USER_AGENT)]

load_ai_config ==
    [api_key |-> getenv("OPENROUTER_API_KEY", None),
     api_url |-> getenv("AI_API_URL", DEFAULT_API_URL)]

\* the keys of the two dicts in insertion order, and k.upper()
RedditKeys == <<"client_id", "client_secret", "user_agent">>
AiKeys == <<"api_key", "api_url">>

Upper(k) ==
    CASE k = "client_id"     -> "CLIENT_ID"
      [] k = "client_secret" -> "CLIENT_SECRET"
      [] k = "user_agent"    -> "USER_AGENT"
      [] k = "api_key"       -> "API_KEY"
      [] k = "api_url"       -> "API_URL"

\* for k, v in d.items(): if not v: missing_configs.append(k.upper())
RECURSIVE MissingOf(_, _)
MissingOf(d, keys) ==
    IF keys = <<>> THEN <<>>
    ELSE (IF Falsy(d[Head(keys)]) THEN <<Upper(Head(keys))>> ELSE <<>>)
         \o MissingOf(d, Tail(keys))

missing_configs ==
    MissingOf(load_reddit_config, RedditKeys) \o MissingOf(load_ai_config, AiKeys)

\* ValueError(f"Missing required environment variables: {', '.join(missing_configs)}")
ConfigurationError(missing) ==
    [type |-> "ValueError", what |-> "Missing required environment variables",
     status |-> 0, text |-> "", keys |-> missing]

\* Config.validate's required_vars
required_vars == <<"REDDIT_CLIENT_ID", "REDDIT_CLIENT_SECRET", "OPENROUTER_API_KEY">>

----------------------------------------------------------------------------
(* The other exceptions of the run *)

AuthenticationError ==
    [type |-> "PrawException", what |-> "Failed to connect to Reddit API",
     status |-> 0, text |-> "", keys |-> <<>>]

FetchError ==
    [type |-> "PrawException", what |-> "Error scraping user data",
     status |-> 0, text |-> "", keys |-> <<>>]

\* ValueError(f"No content found for user {username}")
NoContentFound ==
    [type |-> "ValueError", what |-> "No content found for user",
     status |-> 0, text |-> "", keys |-> <<>>]

\* Exception(f"AI API error {response.status_code}: {response.text}")
CompletionError(status_code, text) ==
    [type |-> "Exception", what |-> "AI API error",
     status |-> status_code, text |-> text, keys |-> <<>>]

\* response.json() of a body that is not JSON
JSONDecodeError ==
    [type |-> "JSONDecodeError", what |-> "response.json()",
     status |-> 0, text |-> "", keys |-> <<>>]

\* result['choices'][0]['message']['content'] of a body without that path
KeyError ==
    [type |-> "KeyError", what |-> "choices",
     status |-> 0, text |-> "", keys |-> <<>>]

\* open(filepath, 'w') failing
WriteError ==
    [type |-> "OSError", what |-> "open",
     status |-> 0, text |-> "", keys |-> <<>>]

----------------------------------------------------------------------------
(* PersonaAnalyzer.analyze_persona *)

HTTP_OK == 200

SYSTEM_MESSAGE == "You are an expert social media analyst ..."

NoResponse == [status_code |-> 0, text |-> "", shape |-> "none"]

\* the payload of line 188-202 posted to self.api_url
PersonaRequest(api_url, text, name) ==
    [url |-> api_url, model |-> DEFAULT_MODEL, system |-> SYSTEM_MESSAGE,
     username |-> name, content |-> text,
     temperature |-> "0.7", max_tokens |-> 4000]

\* the status check left out
analyze_persona_Unchecked(resp) ==
    IF resp.shape = "not_json" THEN Raised(JSONDecodeError)
    ELSE IF resp.shape = "no_choices" THEN Raised(KeyError)
    ELSE Returned(resp.text)

\* lines 206-211, given the response of requests.post
analyze_persona(resp) ==
    IF resp.status_code # HTTP_OK
    THEN Raised(CompletionError(resp.status_code, resp.text))
    ELSE IF resp.shape = "not_json" THEN Raised(JSONDecodeError)
    ELSE IF resp.shape = "no_choices" THEN Raised(KeyError)
    ELSE Returned(resp.text)

----------------------------------------------------------------------------
(* The module-level OpenRouter test, lines 332-400 *)

SAMPLE_USER == <<"sample_user">>

sample_content ==
    << Line("REDDIT USER CONTENT FOR ANALYSIS:", 0, <<>>), BlankLine,
       Line("=== POSTS ===", 0, <<>>),
       Line("POST", 1, <<>>),
       Line("Subreddit", 0, <<"delhi">>),
       Line("Title", 0, <<"Real hiring or something fishy???">>),
       Line("Content", 0, <<"Scam.">>),
       Line("Score", 10, <<>>),
       Line("Link", 0, <<"https://reddit.com/r/delhi/comments/1lzqlj2/real_hiring_or_something_fishy/">>),
       BlankLine,
       Line("=== COMMENTS ===", 0, <<>>),
       Line("COMMENT", 1, <<>>),
       Line("Subreddit", 0, <<"nagpur">>),
       Line("Content", 0, <<"I was caught without helmet and license. ...">>),
       Line("Score", 5, <<>>),
       Line("Link", 0, <<"https://reddit.com/r/nagpur/comments/1lyb0p5/a_very_odd_experience/">>) >>

StandaloneRequest ==
    [url |-> "https://openrouter.ai/api/v1/chat/completions",
     model |-> "deepseek/deepseek-chat-v3-0324", system |-> SYSTEM_MESSAGE,
     username |-> SAMPLE_USER, content |-> sample_content,
     temperature |-> "", max_tokens |-> 0]

----------------------------------------------------------------------------
(* Inputs: what the operator types, what the platform and the endpoint answer *)

S_bob   == <<"b", "o", "b">>
S_uu    == <<"l", "u">>
S_httpd == <<"h", "t", "t", "p", "d">>
S_host  == <<"r", ".", "c", "o", "m">>
S_https == <<"h", "t", "t", "p", "s">>
S_ftp   == <<"f", "t", "p">>
S_sep   == <<":", "/", "/">>
S_slash == <<"/">>

Handles == {S_bob, S_uu, S_httpd}

Schemes == {S_http, S_https, S_ftp}

Trails == {<<>>, S_slash, <<"/", "c">>, <<"/", "c", "/">>}

\* <scheme>://host/user/<name><trail>
ProfileUrl(scheme, name, trail) ==
    scheme \o S_sep \o S_host \o S_slash \o S_user \o S_slash \o name \o trail

\* URLs without a usable segment after the 'user' marker, and with a query,
\* a fragment or parameters after the name
OddUrls(scheme) ==
    LET base == scheme \o S_sep \o S_host
    IN  { base,
          base \o S_slash,
          base \o S_slash \o S_user,
          base \o S_slash \o S_user \o S_slash,
          base \o S_slash \o S_user \o S_slash \o S_slash \o <<"c">>,
          base \o S_slash \o S_u \o S_bob,
          base \o S_slash \o S_user \o S_slash \o S_bob \o <<"?", "x">>,
          base \o S_slash \o S_user \o S_slash \o S_bob \o <<"#", "f">>,
          base \o S_slash \o S_user \o S_slash \o S_bob \o <<";", "p">> }

TypedInputs ==
    {<<>>, <<" ">>, <<" ">> \o S_bob \o <<" ">>, S_u, S_su}
    \cup Handles
    \cup {S_u \o n : n \in Handles}
    \cup {S_su \o n : n \in Handles}
    \cup {ProfileUrl(s, n, t) : s \in Schemes, n \in {S_bob, S_uu}, t \in Trails}
    \cup UNION {OddUrls(s) : s \in Schemes}

EnvValues(k) ==
    IF k = "AI_API_URL" THEN {None, "", "https://custom.example/v1"}
    ELSE {None, "", "value"}

Environments == {e \in [EnvVars -> {None, "", "value", "https://custom.example/v1"}] :
                    \A k \in EnvVars : e[k] \in EnvValues(k)}

\* a body of n characters, varied by position
Body(n, i) == [j \in 1..n |-> <<"a", "b", "c">>[((i + j) % 3) + 1]]

\* RedditContent(content_type='post', ...), lines 92-101
MkPost(i, body) ==
    [content_type |-> "post", title |-> <<"T">> \o Digits(i), body |-> body,
     score |-> i, subreddit |-> <<"s">> \o Digits(i % 2),
     permalink |-> <<"https://reddit.com", "/", "p", "/">> \o Digits(i)]

\* RedditContent(content_type='comment', ...), lines 107-116
MkComment(i, body) ==
    [content_type |-> "comment",
     title |-> <<"Comment in r/", "s">> \o Digits(i % 2), body |-> body,
     score |-> i, subreddit |-> <<"s">> \o Digits(i % 2),
     permalink |-> <<"https://reddit.com", "/", "c", "/">> \o Digits(i)]

max_posts == 50
max_comments == 50

\* fetched lists of the run: n items with short bodies (a comment's is not empty)
FetchedPosts(n) == [i \in 1..n |-> MkPost(i, Body(i % 3, i))]

FetchedComments(n) == [i \in 1..n |-> MkComment(i, Body(1 + (i % 3), i))]

FetchCounts(cap, limit) == {n \in {0, 1, 2, cap, cap + 1, limit} : n <= limit}

\* lists for the formatter alone: bodies around the truncation threshold
MaxItems == 27

BodyLens(limit) == <<0, 1, limit - 1, limit, limit + 1, limit + 2>>

BodyLen(i, k, limit) == BodyLens(limit)[((i + k) % Len(BodyLens(limit))) + 1]

LongPosts(n, k) == [i \in 1..n |-> MkPost(i, Body(BodyLen(i, k, POST_BODY_LIMIT), i))]

LongComments(n, k) ==
    [i \in 1..n |-> MkComment(i, Body(BodyLen(i, k, COMMENT_BODY_LIMIT), i))]

Responses ==
    {[status_code |-> HTTP_OK, text |-> "PERSONA REPORT", shape |-> "chat"],
     [status_code |-> HTTP_OK, text |-> "{}", shape |-> "no_choices"],
     [status_code |-> HTTP_OK, text |-> "<html>", shape |-> "not_json"]}
    \cup {[status_code |-> c, text |-> t, shape |-> "not_json"] :
            c \in {201, 429, 500}, t \in {"", "rate limited"}}

----------------------------------------------------------------------------
(* The run of the script *)

StageOrder == <<"resolve", "fetch", "format", "completion", "write">>

Init ==
    /\ pc = "start"
    /\ env \in Environments
    /\ reddit_config = [client_id |-> None, client_secret |-> None, user_agent |-> None]
    /\ ai_config = [api_key |-> None, api_url |-> None]
    /\ user_input = <<>>
    /\ username = <<>>
    /\ posts = <<>>
    /\ comments = <<>>
    /\ content = <<>>
    /\ persona = ""
    /\ response = NoResponse
    /\ error = NoError
    /\ stages = <<>>
    /\ requests = <<>>
    /\ platform_calls = 0
    /\ files = <<>>

\* main's except Exception handler: the error is logged and printed, main returns
Abort(e) == error' = e /\ pc' = "main_done"

\* main, line 304: load_config()
LoadConfig ==
    /\ pc = "start"
    /\ IF missing_configs # <<>>
       THEN /\ Abort(ConfigurationError(missing_configs))
            /\ UNCHANGED <<reddit_config, ai_config>>
       ELSE /\ reddit_config' = load_reddit_config
            /\ ai_config' = load_ai_config
            /\ pc' = "input"
            /\ UNCHANGED error
    /\ UNCHANGED <<env, user_input, username, posts, comments, content, persona,
                   response, stages, requests, platform_calls, files>>

\* main, lines 307-310: input(...).strip(), and the return on an empty input
ReadInput ==
    /\ pc = "input"
    /\ \E typed \in TypedInputs :
         /\ user_input' = Strip(typed, " ")
         /\ pc' = IF user_input' = <<>> THEN "main_done" ELSE "construct"
    /\ UNCHANGED <<env, reddit_config, ai_config, username, posts, comments, content,
                   persona, response, error, stages, requests, platform_calls, files>>

\* main, line 313: PersonaGenerator(reddit_config, ai_config); RedditScraper.__init__
\* calls the platform (self.reddit.user.me()) and re-raises what it raises
Construct ==
    /\ pc = "construct"
    /\ platform_calls' = platform_calls + 1
    /\ \E connected \in BOOLEAN :
         IF connected THEN pc' = "extract" /\ UNCHANGED error
         ELSE Abort(AuthenticationError)
    /\ UNCHANGED <<env, reddit_config, ai_config, user_input, username, posts, comments,
                   content, persona, response, stages, requests, files>>

\* generate_persona, line 232
ExtractUsername ==
    /\ pc = "extract"
    /\ stages' = Append(stages, "resolve")
    /\ LET r == extract_username(user_input)
       IN  IF r.raised
           THEN Abort(r.exc) /\ UNCHANGED username
           ELSE username' = r.value /\ pc' = "scrape" /\ UNCHANGED error
    /\ UNCHANGED <<env, reddit_config, ai_config, user_input, posts, comments, content,
                   persona, response, requests, platform_calls, files>>

\* the check left out
NoContent_Never(ps, cs) == FALSE

\* generate_persona, line 238: not posts and not comments
NoContent(ps, cs) == ps = <<>> /\ cs = <<>>

\* generate_persona, lines 236-239: scrape_user_data, then the no-content check
ScrapeUserData ==
    /\ pc = "scrape"
    /\ stages' = Append(stages, "fetch")
    /\ platform_calls' = platform_calls + 1
    /\ \/ /\ Abort(FetchError)
          /\ UNCHANGED <<posts, comments>>
       \/ \E n \in FetchCounts(POST_CAP, max_posts), m \in FetchCounts(COMMENT_CAP, max_comments) :
            /\ posts' = FetchedPosts(n)
            /\ comments' = FetchedComments(m)
            /\ IF NoContent(posts', comments')
               THEN Abort(NoContentFound)
               ELSE pc' = "format" /\ UNCHANGED error
    /\ UNCHANGED <<env, reddit_config, ai_config, user_input, username, content, persona,
                   response, requests, files>>

\* generate_persona, line 242
PrepareContent ==
    /\ pc = "format"
    /\ stages' = Append(stages, "format")
    /\ content' = prepare_content_for_analysis(posts, comments)
    /\ pc' = "analyze"
    /\ UNCHANGED <<env, reddit_config, ai_config, user_input, username, posts, comments,
                   persona, response, error, requests, platform_calls, files>>

\* generate_persona, line 245: analyze_persona posts the payload and reads the answer
AnalyzePersona ==
    /\ pc = "analyze"
    /\ stages' = Append(stages, "completion")
    /\ requests' = Append(requests, PersonaRequest(ai_config.api_url, content, username))
    /\ \E resp \in Responses :
         /\ response' = resp
         /\ LET r == analyze_persona(resp)
            IN  IF r.raised
                THEN Abort(r.exc) /\ UNCHANGED persona
                ELSE persona' = r.value /\ pc' = "write" /\ UNCHANGED error
    /\ UNCHANGED <<env, reddit_config, ai_config, user_input, username, posts, comments,
                   content, platform_calls, files>>

\* generate_persona, lines 248-265: the report file
SaveToFile ==
    /\ pc = "write"
    /\ stages' = Append(stages, "write")
    /\ \E opened \in BOOLEAN :
         IF opened
         THEN /\ files' = Append(files, [username |-> username,
                                          posts_analyzed |-> Len(posts),
                                          comments_analyzed |-> Len(comments),
                                          persona |-> persona])
              /\ pc' = "main_done"
              /\ UNCHANGED error
         ELSE Abort(WriteError) /\ UNCHANGED files
    /\ UNCHANGED <<env, reddit_config, ai_config, user_input, username, posts, comments,
                   content, persona, response, requests, platform_calls>>

\* lines 336-400, executed after main() has returned
StandaloneTest ==
    /\ pc = "main_done"
    /\ LET api_key == getenv("OPENROUTER_API_KEY", None)
       IN  requests' = IF ~Falsy(api_key) THEN Append(requests, StandaloneRequest)
                       ELSE requests
    /\ pc' = "exit"
    /\ UNCHANGED <<env, reddit_config, ai_config, user_input, username, posts, comments,
                   content, persona, response, error, stages, platform_calls, files>>

Next ==
    \/ LoadConfig
    \/ ReadInput
    \/ Construct
    \/ ExtractUsername
    \/ ScrapeUserData
    \/ PrepareContent
    \/ AnalyzePersona
    \/ SaveToFile
    \/ StandaloneTest

Spec == Init /\ [][Next]_vars

----------------------------------------------------------------------------
(* The formatter alone, on lists with bodies around the thresholds *)

FormatInit ==
    /\ pc = "format"
    /\ env = [k \in EnvVars |-> IF k = "AI_API_URL" THEN None ELSE "value"]
    /\ reddit_config = load_reddit_config
    /\ ai_config = load_ai_config
    /\ user_input = S_bob
    /\ username = S_bob
    /\ \E n \in 0..MaxItems, m \in 0..MaxItems, k \in 0..(Len(BodyLens(0)) - 1) :
         /\ posts = LongPosts(n, k)
         /\ comments = LongComments(m, k)
    /\ content = <<>>
    /\ persona = ""
    /\ response = NoResponse
    /\ error = NoError
    /\ stages = <<"resolve", "fetch">>
    /\ requests = <<>>
    /\ platform_calls = 2
    /\ files = <<>>

FormatNext == PrepareContent

FormatSpec == FormatInit /\ [][FormatNext]_vars

----------------------------------------------------------------------------
(* Reading the corpus text back: sections, numbered items, fields *)

LabelAt(text, label) ==
    CHOOSE i \in 1..Len(text) :
        text[i].label = label /\ \A j \in 1..(i - 1) : text[j].label # label

HasLabel(text, label) == \E i \in 1..Len(text) : text[i].label = label

PostsSection(text) ==
    SubSeq(text, LabelAt(text, "=== POSTS ===") + 1, LabelAt(text, "=== COMMENTS ===") - 1)

CommentsSection(text) ==
    SubSeq(text, LabelAt(text, "=== COMMENTS ===") + 1, Len(text))

ItemPositions(section, tag) == {j \in 1..Len(section) : section[j].label = tag}

ItemCount(section, tag) == Cardinality(ItemPositions(section, tag))

\* the lines of the k-th numbered item of a section: from its header to the next
ItemBlock(section, tag, k) ==
    LET at  == ItemPositions(section, tag)
        pos(n) == CHOOSE j \in at : Cardinality({x \in at : x <= j}) = n
        last == IF k = Cardinality(at) THEN Len(section) ELSE pos(k + 1) - 1
    IN  SubSeq(section, pos(k), last)

FieldsOf(block, label) == SelectSeq(block, LAMBDA l : l.label = label)

\* the k-th item of the section is numbered k and carries the given item's
\* subreddit, score and link, once each
ItemIs(section, tag, k, item) ==
    LET block == ItemBlock(section, tag, k)
    IN  /\ block[1].num = k
        /\ FieldsOf(block, "Subreddit") = <<Line("Subreddit", 0, item.subreddit)>>
        /\ FieldsOf(block, "Score") = <<Line("Score", item.score, <<>>)>>
        /\ FieldsOf(block, "Link") = <<Line("Link", 0, item.permalink)>>

\* the law of the claim: the first `limit` characters and the marker, or the body
TruncationLaw(body, limit, text) ==
    IF Len(body) > limit
    THEN /\ Len(text) = limit + 3
         /\ \A j \in 1..limit : text[j] = body[j]
         /\ \A j \in (limit + 1)..(limit + 3) : text[j] = "."
    ELSE text = body

ContentFieldLaw(section, tag, k, item, limit) ==
    LET fields == FieldsOf(ItemBlock(section, tag, k), "Content")
    IN  Len(fields) = 1 /\ TruncationLaw(item.body, limit, fields[1].text)

Formatted == "format" \in {stages[i] : i \in 1..Len(stages)}

\* C1: every emitted post's Content field is the first 500 characters of the
\* body followed by '...' when the body is longer than 500 characters, and the
\* body unchanged (no marker) when it has at most 500 characters; the same for
\* every emitted comment with 300.
C1_Truncation ==
    Formatted =>
        /\ \A k \in 1..ItemCount(PostsSection(content), "POST") :
             ContentFieldLaw(PostsSection(content), "POST", k, posts[k], 500)
        /\ \A k \in 1..ItemCount(CommentsSection(content), "COMMENT") :
             ContentFieldLaw(CommentsSection(content), "COMMENT", k, comments[k], 300)

\* a formatted corpus holding a post body of 501, of exactly 500 and of 0
\* characters and a comment body of 301 and of exactly 300 characters
C1_Witness ==
    /\ Formatted
    /\ \E a, b, c \in 1..ItemCount(PostsSection(content), "POST") :
         /\ Len(posts[a].body) = 501
         /\ Len(posts[b].body) = 500
         /\ Len(posts[c].body) = 0
    /\ \E a, b \in 1..ItemCount(CommentsSection(content), "COMMENT") :
         /\ Len(comments[a].body) = 301
         /\ Len(comments[b].body) = 300

\* C2: the POSTS section holds exactly min(len(posts), 25) numbered items and
\* the COMMENTS section exactly min(len(comments), 25), numbered 1, 2, ...,
\* item i being the i-th item of the input list, and POSTS precedes COMMENTS.
C2_CappedInOrder ==
    Formatted =>
        LET P == PostsSection(content)
            C == CommentsSection(content)
        IN  /\ HasLabel(content, "=== POSTS ===")
            /\ HasLabel(content, "=== COMMENTS ===")
            /\ LabelAt(content, "=== POSTS ===") < LabelAt(content, "=== COMMENTS ===")
            /\ ItemCount(P, "POST") = Min(Len(posts), 25)
            /\ ItemCount(C, "COMMENT") = Min(Len(comments), 25)
            /\ ItemCount(P, "COMMENT") = 0
            /\ ItemCount(C, "POST") = 0
            /\ ItemCount(SubSeq(content, 1, LabelAt(content, "=== POSTS ===")), "POST") = 0
            /\ ItemCount(SubSeq(content, 1, LabelAt(content, "=== POSTS ===")), "COMMENT") = 0
            /\ \A k \in 1..ItemCount(P, "POST") : ItemIs(P, "POST", k, posts[k])
            /\ \A k \in 1..ItemCount(C, "COMMENT") : ItemIs(C, "COMMENT", k, comments[k])

\* more than 25 posts and more than 25 comments were formatted
C2_Witness ==
    /\ Formatted
    /\ Len(posts) > 25
    /\ Len(comments) > 25
    /\ Len(posts) # Len(comments)
    /\ ItemCount(PostsSection(content), "POST") = 25

----------------------------------------------------------------------------
(* The run: claims about the pipeline *)

Range(f) == {f[i] : i \in DOMAIN f}

Done(stage) == stage \in Range(stages)

IsPrefix(a, b) == Len(a) <= Len(b) /\ SubSeq(b, 1, Len(a)) = a

\* C3: when the fetch (of a non-empty username) returns zero submissions and zero comments, the run fails
\* with the no-content error, no request is sent to the completion endpoint at
\* any point of the run, and no file is written.
C3_NoContentNoRequest ==
    (Done("fetch") /\ username # <<>> /\ error # FetchError
        /\ posts = <<>> /\ comments = <<>>) =>
        /\ error = NoContentFound
        /\ requests = <<>>
        /\ files = <<>>

\* C4: when the completion endpoint answers with a status other than 200, the
\* error that leaves generate_persona carries the status code and the response
\* body, and no report file is written in that run.
C4_Non200IsFatal ==
    (Done("completion") /\ response.status_code # 200) =>
        /\ pc \in {"main_done", "exit"}
        /\ error.type = "Exception"
        /\ error.status = response.status_code
        /\ error.text = response.text
        /\ ~Done("write")
        /\ files = <<>>

\* the endpoint answered 429 with a body, and the script has run to its end
C4_Witness ==
    /\ pc = "exit"
    /\ Done("completion")
    /\ response.status_code = 429
    /\ response.text = "rate limited"

C5_Stages ==
    /\ IsPrefix(stages, StageOrder)
    /\ (Done("resolve") /\ extract_username(user_input).raised) => ~Done("fetch")
    /\ error = FetchError => stages = <<"resolve", "fetch">>
    /\ (Done("fetch") /\ posts = <<>> /\ comments = <<>>) => ~Done("format")
    /\ (Done("completion") /\ (response.status_code # 200 \/ response.shape # "chat"))
         => ~Done("write")
    /\ Len(files) <= 1
    /\ files # <<>> => (stages = StageOrder /\ error = NoError)

\* C5: the stages run in the order resolve, fetch, format, completion, write,
\* each at most once; a failed stage (unparseable identifier, fetch error, no
\* content, non-200 status, response without choices[0].message.content) is
\* followed by no later stage and by no retry; a report file is written only
\* when every earlier stage succeeded, and at most one per run.
C5_LinearPipeline ==
    /\ []C5_Stages
    /\ [][error # NoError => (stages' = stages /\ files' = files)]_vars

\* a run that failed in the completion stage after the three stages before it
C5_Witness ==
    /\ pc = "exit"
    /\ error = KeyError
    /\ stages = <<"resolve", "fetch", "format", "completion">>
    /\ files = <<>>

\* C6: at most one request is sent to the completion endpoint in a run, and it
\* is the one built from the fetched user's formatted corpus.
C6_OneRequest ==
    /\ Len(requests) <= 1
    /\ \A i \in 1..Len(requests) :
         /\ requests[i].username = username
         /\ requests[i].content = prepare_content_for_analysis(posts, comments)

\* C7: for every handle <name>, each of '<name>', 'u/<name>' and '/u/<name>'
\* resolves to <name>.
C7_HandleForms ==
    \A n \in Handles :
        (Done("resolve") /\ user_input \in {n, S_u \o n, S_su \o n}) =>
            (username = n /\ error # InvalidIdentifier)

C9_NeverEmpty ==
    Done("resolve") =>
        /\ username # <<>> \/ error = InvalidIdentifier
        /\ Done("fetch") => username # <<>>

\* C10: load_config raises a configuration error exactly when a required key
\* is missing, its listed keys are exactly the missing required keys under
\* their configuration key names, and no network call precedes it.
C10_MissingKeysListed ==
    pc # "start" =>
        LET missing == {k \in Range(required_vars) : Falsy(env[k])}
        IN  IF missing # {}
            THEN /\ error.what = "Missing required environment variables"
                 /\ Range(error.keys) = missing
                 /\ Len(error.keys) = Cardinality(missing)
                 /\ platform_calls = 0
                 /\ pc = "main_done" => requests = <<>>
            ELSE error.what # "Missing required environment variables"

\* C11: in every report file written (for a well-formed handle), the 'Posts Analyzed' and 'Comments
\* Analyzed' counts of the header equal the numbers of numbered POST and
\* COMMENT items of the corpus sent to the completion endpoint in that run.
C11_CountsAreAnalyzed ==
    \A f \in 1..Len(files) : files[f].username \in Handles =>
        /\ requests # <<>>
        /\ files[f].posts_analyzed = ItemCount(PostsSection(requests[1].content), "POST")
        /\ files[f].comments_analyzed =
               ItemCount(CommentsSection(requests[1].content), "COMMENT")

====
